---- MODULE Spec2Model ----
(***************************************************************************)
(* Model of the purchase-gated prediction flow of avax-nfl-predictor:      *)
(*   - the PredictionPayment contract (frontend/vite.config.js, 20-69),    *)
(*   - the App component's handlers (frontend/src/App.jsx, 74-363):        *)
(*     fetchGames, handleGameSelect, handleConnect, checkNetwork, the      *)
(*     predictionPrice hook, handleGetPrediction and handleWithdraw.       *)
(* Amounts are counted in units of 0.01 of the chain's native coin.        *)
(* A handler that awaits is a set of continuations: every call of it has   *)
(* its own, and calls made while another is pending run concurrently.      *)
(***************************************************************************)
EXTENDS Integers, Sequences, FiniteSets, TLC

(***************************************************************************)
(* Bounds                                                                  *)
(***************************************************************************)
NumAccounts == 2
MaxGameId == 2
\* invocations of handleGetPrediction
MaxInvocations == 2
\* how often the user changes the chain in the wallet
MaxChainChanges == 2
\* connection requests of handleConnect that wait for the wallet at the same
\* time
MaxConnects == 2
\* handleWithdraw calls that have not ended at the same time
MaxWithdrawals == 1
\* purchases recorded by the contract when it is called directly
MaxPurchases == 2

Accounts == 1..NumAccounts
Games == 1..MaxGameId
Invocations == 1..MaxInvocations

(***************************************************************************)
(* Program constants                                                       *)
(***************************************************************************)
\* parseEther('0.07'), in units of 0.01
PaymentValue == 7
\* the deployer, made owner by the Ownable constructor
Deployer == 1
\* address(0), the owner after renounceOwnership
ZeroAddress == 0
\* the address the Admin Controls are rendered for
AdminAddress == Deployer
\* <React.StrictMode>: a development build runs the effects of a mount twice
StrictModeRuns == 2

\* const AVALANCHE_CHAIN_ID
AVALANCHE_CHAIN_ID == "0xa86a"

\* The chains the wallet may be on: Avalanche, and Ethereum mainnet
Chains == {AVALANCHE_CHAIN_ID, "0x1"}

\* Prices the constructor and updatePrice are exercised with: the amount the
\* App attaches, and more than it.
Prices == {PaymentValue, PaymentValue + 2}
\* msg.value of a direct call to purchasePrediction: nothing, and amounts
\* below, equal to and above the prices
Values == {0, PaymentValue, PaymentValue + 2}

\* The time zones the browser is run in
TimeZones == {"UTC", "America/New_York", "Europe/London"}

(***************************************************************************)
(* Messages: a string is the sequence of its characters                    *)
(***************************************************************************)
\* null, and the empty string
NoError == <<>>

\* JS String.prototype.includes: s occurs in m, character by character
Includes(m, s) ==
    \E i \in 0..(Len(m) - Len(s)) : \A j \in 1..Len(s) : m[i + j] = s[j]

\* require(...) reasons of the contract
\* 'Insufficient payment'
InsufficientPaymentReason ==
    <<"I", "n", "s", "u", "f", "f", "i", "c", "i", "e", "n", "t", " ", "p",
      "a", "y", "m", "e", "n", "t">>

\* 'Already purchased'
AlreadyPurchasedReason ==
    <<"A", "l", "r", "e", "a", "d", "y", " ", "p", "u", "r", "c", "h", "a",
      "s", "e", "d">>

\* 'Refund failed'
RefundFailedReason ==
    <<"R", "e", "f", "u", "n", "d", " ", "f", "a", "i", "l", "e", "d">>

\* 'Ownable: caller is not the owner'
NotOwnerReason ==
    <<"O", "w", "n", "a", "b", "l", "e", ":", " ", "c", "a", "l", "l", "e",
      "r", " ", "i", "s", " ", "n", "o", "t", " ", "t", "h", "e", " ", "o",
      "w", "n", "e", "r">>

\* 'Ownable: new owner is the zero address'
NewOwnerZeroReason ==
    <<"O", "w", "n", "a", "b", "l", "e", ":", " ", "n", "e", "w", " ", "o",
      "w", "n", "e", "r", " ", "i", "s", " ", "t", "h", "e", " ", "z", "e",
      "r", "o", " ", "a", "d", "d", "r", "e", "s", "s">>

\* 'No balance to withdraw'
NoBalanceReason ==
    <<"N", "o", " ", "b", "a", "l", "a", "n", "c", "e", " ", "t", "o", " ",
      "w", "i", "t", "h", "d", "r", "a", "w">>

\* 'Withdrawal failed'
WithdrawalFailedReason ==
    <<"W", "i", "t", "h", "d", "r", "a", "w", "a", "l", " ", "f", "a", "i",
      "l", "e", "d">>

Ok == <<"ok">>
\* an invocation that has not ended, and no invocation yet
Running == <<"running">>
NotStarted == <<"none">>

\* Messages the App puts in its error state
\* 'Please connect your wallet first'
MsgConnectFirst ==
    <<"P", "l", "e", "a", "s", "e", " ", "c", "o", "n", "n", "e", "c", "t",
      " ", "y", "o", "u", "r", " ", "w", "a", "l", "l", "e", "t", " ", "f",
      "i", "r", "s", "t">>

\* 'Please confirm the transaction in MetaMask...'
MsgConfirmInWallet ==
    <<"P", "l", "e", "a", "s", "e", " ", "c", "o", "n", "f", "i", "r", "m",
      " ", "t", "h", "e", " ", "t", "r", "a", "n", "s", "a", "c", "t", "i",
      "o", "n", " ", "i", "n", " ", "M", "e", "t", "a", "M", "a", "s", "k",
      ".", ".", ".">>

\* 'Transaction submitted. Waiting for confirmation...'
MsgSubmitted ==
    <<"T", "r", "a", "n", "s", "a", "c", "t", "i", "o", "n", " ", "s", "u",
      "b", "m", "i", "t", "t", "e", "d", ".", " ", "W", "a", "i", "t", "i",
      "n", "g", " ", "f", "o", "r", " ", "c", "o", "n", "f", "i", "r", "m",
      "a", "t", "i", "o", "n", ".", ".", ".">>

\* 'Transaction confirmed. Fetching prediction...'
MsgConfirmed ==
    <<"T", "r", "a", "n", "s", "a", "c", "t", "i", "o", "n", " ", "c", "o",
      "n", "f", "i", "r", "m", "e", "d", ".", " ", "F", "e", "t", "c", "h",
      "i", "n", "g", " ", "p", "r", "e", "d", "i", "c", "t", "i", "o", "n",
      ".", ".", ".">>

\* 'Transaction cancelled. Prediction not purchased.'
MsgCancelled ==
    <<"T", "r", "a", "n", "s", "a", "c", "t", "i", "o", "n", " ", "c", "a",
      "n", "c", "e", "l", "l", "e", "d", ".", " ", "P", "r", "e", "d", "i",
      "c", "t", "i", "o", "n", " ", "n", "o", "t", " ", "p", "u", "r", "c",
      "h", "a", "s", "e", "d", ".">>

\* 'Insufficient AVAX balance. Please make sure you have enough AVAX to 
\*  cover the prediction cost and gas fees.'
MsgInsufficient ==
    <<"I", "n", "s", "u", "f", "f", "i", "c", "i", "e", "n", "t", " ", "A",
      "V", "A", "X", " ", "b", "a", "l", "a", "n", "c", "e", ".", " ", "P",
      "l", "e", "a", "s", "e", " ", "m", "a", "k", "e", " ", "s", "u", "r",
      "e", " ", "y", "o", "u", " ", "h", "a", "v", "e", " ", "e", "n", "o",
      "u", "g", "h", " ", "A", "V", "A", "X", " ", "t", "o", " ", "c", "o",
      "v", "e", "r", " ", "t", "h", "e", " ", "p", "r", "e", "d", "i", "c",
      "t", "i", "o", "n", " ", "c", "o", "s", "t", " ", "a", "n", "d", " ",
      "g", "a", "s", " ", "f", "e", "e", "s", ".">>

\* 'Payment verification failed. Please try again.'
MsgVerificationFailed ==
    <<"P", "a", "y", "m", "e", "n", "t", " ", "v", "e", "r", "i", "f", "i",
      "c", "a", "t", "i", "o", "n", " ", "f", "a", "i", "l", "e", "d", ".",
      " ", "P", "l", "e", "a", "s", "e", " ", "t", "r", "y", " ", "a", "g",
      "a", "i", "n", ".">>

\* 'No prediction data available for this game'
MsgNoPrediction ==
    <<"N", "o", " ", "p", "r", "e", "d", "i", "c", "t", "i", "o", "n", " ",
      "d", "a", "t", "a", " ", "a", "v", "a", "i", "l", "a", "b", "l", "e",
      " ", "f", "o", "r", " ", "t", "h", "i", "s", " ", "g", "a", "m", "e">>

\* 'Failed to get prediction'
MsgFailedFallback ==
    <<"F", "a", "i", "l", "e", "d", " ", "t", "o", " ", "g", "e", "t", " ",
      "p", "r", "e", "d", "i", "c", "t", "i", "o", "n">>

\* 'Failed to load games: '
MsgLoadGamesPrefix ==
    <<"F", "a", "i", "l", "e", "d", " ", "t", "o", " ", "l", "o", "a", "d",
      " ", "g", "a", "m", "e", "s", ":", " ">>

\* 'HTTP error! status: 500'
MsgHttpError ==
    <<"H", "T", "T", "P", " ", "e", "r", "r", "o", "r", "!", " ", "s", "t",
      "a", "t", "u", "s", ":", " ", "5", "0", "0">>

\* 'Invalid schedule data format'
MsgInvalidSchedule ==
    <<"I", "n", "v", "a", "l", "i", "d", " ", "s", "c", "h", "e", "d", "u",
      "l", "e", " ", "d", "a", "t", "a", " ", "f", "o", "r", "m", "a", "t">>

\* 'Server error: 500'
MsgServerStatus ==
    <<"S", "e", "r", "v", "e", "r", " ", "e", "r", "r", "o", "r", ":", " ",
      "5", "0", "0">>

\* Messages of checkNetwork
\* 'Wrong Network'
MsgWrongNetwork ==
    <<"W", "r", "o", "n", "g", " ", "N", "e", "t", "w", "o", "r", "k">>

\* 'Avalanche Network'
MsgAvalancheNetwork ==
    <<"A", "v", "a", "l", "a", "n", "c", "h", "e", " ", "N", "e", "t", "w",
      "o", "r", "k">>

\* 'Please switch to Avalanche Network'
MsgPleaseSwitch ==
    <<"P", "l", "e", "a", "s", "e", " ", "s", "w", "i", "t", "c", "h", " ",
      "t", "o", " ", "A", "v", "a", "l", "a", "n", "c", "h", "e", " ", "N",
      "e", "t", "w", "o", "r", "k">>

\* 'Failed to add Avalanche network'
MsgAddFailed ==
    <<"F", "a", "i", "l", "e", "d", " ", "t", "o", " ", "a", "d", "d", " ",
      "A", "v", "a", "l", "a", "n", "c", "h", "e", " ", "n", "e", "t", "w",
      "o", "r", "k">>

\* 'Error checking network'
MsgCheckFailed ==
    <<"E", "r", "r", "o", "r", " ", "c", "h", "e", "c", "k", "i", "n", "g",
      " ", "n", "e", "t", "w", "o", "r", "k">>

\* Messages handleWithdraw puts in withdrawalStatus
\* 'Initiating withdrawal...'
MsgInitiating ==
    <<"I", "n", "i", "t", "i", "a", "t", "i", "n", "g", " ", "w", "i", "t",
      "h", "d", "r", "a", "w", "a", "l", ".", ".", ".">>

\* 'Waiting for confirmation...'
MsgWaitingConfirmation ==
    <<"W", "a", "i", "t", "i", "n", "g", " ", "f", "o", "r", " ", "c", "o",
      "n", "f", "i", "r", "m", "a", "t", "i", "o", "n", ".", ".", ".">>

\* 'Withdrawal successful!'
MsgWithdrawalSuccessful ==
    <<"W", "i", "t", "h", "d", "r", "a", "w", "a", "l", " ", "s", "u", "c",
      "c", "e", "s", "s", "f", "u", "l", "!">>

\* 'Withdrawal failed: '
MsgWithdrawalFailedPrefix ==
    <<"W", "i", "t", "h", "d", "r", "a", "w", "a", "l", " ", "f", "a", "i",
      "l", "e", "d", ":", " ">>

\* Messages of errors raised by the collaborators (wallet, RPC, HTTP)
\* 'User rejected the transaction'
WalletUserRejected ==
    <<"U", "s", "e", "r", " ", "r", "e", "j", "e", "c", "t", "e", "d", " ",
      "t", "h", "e", " ", "t", "r", "a", "n", "s", "a", "c", "t", "i", "o",
      "n">>

\* 'insufficient funds for gas'
WalletInsufficientFunds ==
    <<"i", "n", "s", "u", "f", "f", "i", "c", "i", "e", "n", "t", " ", "f",
      "u", "n", "d", "s", " ", "f", "o", "r", " ", "g", "a", "s">>

\* 'Failed to fetch'
NetworkFailure ==
    <<"F", "a", "i", "l", "e", "d", " ", "t", "o", " ", "f", "e", "t", "c",
      "h">>

\* 'Prediction service error'
ServerSaid ==
    <<"P", "r", "e", "d", "i", "c", "t", "i", "o", "n", " ", "s", "e", "r",
      "v", "i", "c", "e", " ", "e", "r", "r", "o", "r">>

\* The texts the inner catch of handleGetPrediction looks for
\* 'User rejected the transaction'
TextUserRejected ==
    <<"U", "s", "e", "r", " ", "r", "e", "j", "e", "c", "t", "e", "d", " ",
      "t", "h", "e", " ", "t", "r", "a", "n", "s", "a", "c", "t", "i", "o",
      "n">>

\* 'insufficient funds'
TextInsufficientFunds ==
    <<"i", "n", "s", "u", "f", "f", "i", "c", "i", "e", "n", "t", " ", "f",
      "u", "n", "d", "s">>

VARIABLES
    \* PredictionPayment
    owner,                  \* Ownable: owner()
    predictionPrice,        \* uint256 public predictionPrice
    hasPaidForPrediction,   \* mapping(address => mapping(uint256 => bool))
    balance,                \* address(this).balance
    collected,              \* history: the prices of the purchases made since
                            \* the last withdrawal, summed
    lastCall,               \* the last state-changing call and how it ended
    \* the chain, as far as the App's transactions go
    txs,                    \* invocation -> its purchasePrediction transaction
    pendingWithdraws,       \* withdraw() transactions of the App not mined yet
    \* App component state
    isConnected,            \* useAccount().isConnected
    address,                \* useAccount().address, 0 while undefined
    games,                  \* useState([]) : the ids of the listed games
    schedule,               \* data.schedule of the answer fetchGames worked on
    loading,                \* useState(false)
    selectedGame,           \* useState(null) : a game id, 0 while null
    error,                  \* useState(null) : a message, NoError while null
    prediction,             \* useState(null) : the game id of the payload, 0 while null
    loadingPrediction,      \* useState(false)
    currentPrice,           \* useReadContract(predictionPrice).data, 0 while undefined
    networkInfo,            \* useState(null) : a message, NoError while null
    networkError,           \* useState(null) : a message, NoError while null
    withdrawalStatus,       \* useState('')
    \* the wallet
    chainId,                \* what eth_chainId answers
    chainChanges,           \* changes of the chain made by the user so far
    \* the calls of the asynchronous handlers that have not ended
    fgPc,                   \* "init" before the mount, "mounted" after it
    fetching,               \* fetchGames calls that wait for the answer
    connecting,             \* connection requests the wallet has not answered
    netChecked,             \* the effect of [isConnected] has run for a
                            \* connected wallet
    netRuns,                \* checkNetwork calls, counted by the request they
                            \* wait for: chainId, switch, add
    wdRuns,                 \* handleWithdraw calls: `calls` made so far, and
                            \* those that wait, counted by what they wait
                            \* for: submit, wait (5 s), clear (3 s)
    invocations,            \* invocations of handleGetPrediction started so far
    inv                     \* invocation -> where it is and what it did:
                            \*   pc          idle, check, submit, poll, recheck, fetch
                            \*   game        selectedGame of the handler's closure
                            \*   readArgs    the gameId of the canAccessPrediction
                            \*               read in flight
                            \*   txResponse  what writeContract returned
                            \*   reads       the canAccessPrediction reads:
                            \*               <<[gameId, data]>>
                            \*   submits     writeContract(purchasePrediction) calls
                            \*   fetches     fetch(predict/{id}) calls: the ids
                            \*   thrown      txError.message of the inner catch
                            \*   outcome     how it ended: Ok, or its message
                            \*   reselected  another game was selected while it
                            \*               polled for its receipt

ledgerVars == <<owner, predictionPrice, hasPaidForPrediction, balance, collected,
                lastCall>>
chainVars == <<txs, pendingWithdraws>>
connVars == <<isConnected, address, connecting>>
gamesVars == <<games, schedule, loading, fgPc, fetching>>
flowVars == <<inv, invocations>>
netVars == <<chainId, chainChanges, networkInfo, networkError, netChecked,
             netRuns>>
adminVars == <<withdrawalStatus, wdRuns>>
envVars == <<currentPrice>>
uiVars == <<selectedGame, error, prediction, loadingPrediction>>
appVars == <<chainVars, connVars, gamesVars, uiVars, flowVars, netVars,
             adminVars, envVars>>
vars == <<ledgerVars, appVars>>

NoCall == [fn |-> "none", caller |-> 0, gameId |-> 0, value |-> 0, result |-> Ok]

(***************************************************************************)
(* PredictionPayment                                                       *)
(***************************************************************************)
\* function canAccessPrediction(address user, uint256 gameId) view
canAccessPrediction(user, gameId) == hasPaidForPrediction[user][gameId]

\* purchasePrediction without its second require
PurchaseResultNoDuplicateCheck(caller, gameId, value, refundOk) ==
    IF ~(value >= predictionPrice) THEN InsufficientPaymentReason
    ELSE IF value > predictionPrice /\ ~refundOk THEN RefundFailedReason
    ELSE Ok

\* How purchasePrediction(gameId) sent by `caller` with msg.value = value ends;
\* refundOk is whether the caller accepts the refund of the excess.
PurchaseResult(caller, gameId, value, refundOk) ==
    IF ~(value >= predictionPrice) THEN InsufficientPaymentReason
    ELSE IF hasPaidForPrediction[caller][gameId] THEN AlreadyPurchasedReason
    ELSE IF value > predictionPrice /\ ~refundOk THEN RefundFailedReason
    ELSE Ok

\* a purchase that rewrites the caller's whole row of the mapping
MarkPaidOverwriteRow(caller, gameId) ==
    [hasPaidForPrediction EXCEPT ![caller] = [g \in Games |-> g = gameId]]

\* The mapping after a successful purchasePrediction
MarkPaid(caller, gameId) ==
    [hasPaidForPrediction EXCEPT ![caller][gameId] = TRUE]

\* a purchase that keeps the excess of msg.value
BalanceAfterPurchaseKeepsExcess(value) == balance + value

\* The contract balance after a successful purchasePrediction: msg.value came
\* in, the excess over the price went back.
BalanceAfterPurchase(value) ==
    IF value > predictionPrice
        THEN (balance + value) - (value - predictionPrice)
        ELSE balance + value

\* The effect of purchasePrediction on the contract; a revert changes nothing.
PurchaseEffect(caller, gameId, value, refundOk) ==
    /\ IF PurchaseResult(caller, gameId, value, refundOk) = Ok
          THEN /\ hasPaidForPrediction' = MarkPaid(caller, gameId)
               /\ balance' = BalanceAfterPurchase(value)
               /\ collected' = collected + predictionPrice
          ELSE UNCHANGED <<hasPaidForPrediction, balance, collected>>
    /\ UNCHANGED <<owner, predictionPrice>>

\* Ownable's modifier onlyOwner: owner() == msg.sender
OnlyOwner(caller) == caller = owner

\* How updatePrice(newPrice) sent by `caller` ends (onlyOwner)
UpdatePriceResult(caller) ==
    IF ~OnlyOwner(caller) THEN NotOwnerReason ELSE Ok

\* The effect of updatePrice on the contract
UpdatePriceEffect(caller, newPrice) ==
    /\ predictionPrice' = IF UpdatePriceResult(caller) = Ok THEN newPrice
                          ELSE predictionPrice
    /\ UNCHANGED <<owner, hasPaidForPrediction, balance, collected>>

\* withdraw without onlyOwner
WithdrawResultAnyCaller(caller, sendOk) ==
    IF ~(balance > 0) THEN NoBalanceReason
    ELSE IF ~sendOk THEN WithdrawalFailedReason
    ELSE Ok

\* How withdraw() sent by `caller` ends; sendOk is whether the owner accepts
\* the transfer.
WithdrawResult(caller, sendOk) ==
    IF ~OnlyOwner(caller) THEN NotOwnerReason
    ELSE IF ~(balance > 0) THEN NoBalanceReason
    ELSE IF ~sendOk THEN WithdrawalFailedReason
    ELSE Ok

\* The effect of withdraw on the contract: the whole balance leaves
WithdrawEffect(caller, sendOk) ==
    /\ balance' = IF WithdrawResult(caller, sendOk) = Ok THEN 0 ELSE balance
    /\ collected' = IF WithdrawResult(caller, sendOk) = Ok THEN 0 ELSE collected
    /\ UNCHANGED <<owner, predictionPrice, hasPaidForPrediction>>

\* How transferOwnership(newOwner) sent by `caller` ends (Ownable)
TransferOwnershipResult(caller, newOwner) ==
    IF ~OnlyOwner(caller) THEN NotOwnerReason
    ELSE IF newOwner = ZeroAddress THEN NewOwnerZeroReason
    ELSE Ok

\* How renounceOwnership() sent by `caller` ends (Ownable)
RenounceOwnershipResult(caller) ==
    IF ~OnlyOwner(caller) THEN NotOwnerReason ELSE Ok

\* Whether the caller accepts the refund: asked only when there is an excess
RefundAnswers(value) == IF value > predictionPrice THEN BOOLEAN ELSE {TRUE}

\* Whether the owner accepts the transfer: asked only when withdraw gets there
SendAnswers(caller) ==
    IF OnlyOwner(caller) /\ balance > 0 THEN BOOLEAN ELSE {TRUE}

\* the purchases recorded in the mapping
PaidPairs == {p \in Accounts \X Games : hasPaidForPrediction[p[1]][p[2]]}

\* purchasePrediction(gameId) called by any account with any value; how the
\* call ended is kept in lastCall. Calls that succeed are made until
\* MaxPurchases pairs are recorded.
PurchasePrediction ==
    \E caller \in Accounts, gameId \in Games, value \in Values :
      \E refundOk \in RefundAnswers(value) :
        /\ PurchaseResult(caller, gameId, value, refundOk) = Ok =>
                Cardinality(PaidPairs) < MaxPurchases
        /\ PurchaseEffect(caller, gameId, value, refundOk)
        /\ lastCall' = [fn |-> "purchasePrediction", caller |-> caller,
                        gameId |-> gameId, value |-> value,
                        result |-> PurchaseResult(caller, gameId, value, refundOk)]
        /\ UNCHANGED appVars

\* updatePrice(newPrice) called by any account
UpdatePrice ==
    \E caller \in Accounts, newPrice \in Prices :
        /\ UpdatePriceEffect(caller, newPrice)
        /\ lastCall' = [fn |-> "updatePrice", caller |-> caller, gameId |-> 0,
                        value |-> newPrice, result |-> UpdatePriceResult(caller)]
        /\ UNCHANGED appVars

\* withdraw() called by any account
Withdraw ==
    \E caller \in Accounts :
      \E sendOk \in SendAnswers(caller) :
        /\ WithdrawEffect(caller, sendOk)
        /\ lastCall' = [fn |-> "withdraw", caller |-> caller, gameId |-> 0,
                        value |-> 0, result |-> WithdrawResult(caller, sendOk)]
        /\ UNCHANGED appVars

\* transferOwnership(newOwner) called by any account, for any account or the
\* zero address
TransferOwnership ==
    \E caller \in Accounts, newOwner \in Accounts \cup {ZeroAddress} :
        /\ owner' = IF TransferOwnershipResult(caller, newOwner) = Ok
                        THEN newOwner ELSE owner
        /\ lastCall' = [fn |-> "transferOwnership", caller |-> caller,
                        gameId |-> 0, value |-> newOwner,
                        result |-> TransferOwnershipResult(caller, newOwner)]
        /\ UNCHANGED <<predictionPrice, hasPaidForPrediction, balance,
                       collected, appVars>>

\* renounceOwnership() called by any account: the contract is left without
\* an owner
RenounceOwnership ==
    \E caller \in Accounts :
        /\ owner' = IF RenounceOwnershipResult(caller) = Ok
                        THEN ZeroAddress ELSE owner
        /\ lastCall' = [fn |-> "renounceOwnership", caller |-> caller,
                        gameId |-> 0, value |-> 0,
                        result |-> RenounceOwnershipResult(caller)]
        /\ UNCHANGED <<predictionPrice, hasPaidForPrediction, balance,
                       collected, appVars>>

(***************************************************************************)
(* The chain and the wallet, as the App sees them                          *)
(***************************************************************************)
NoTx == [status |-> "none", from |-> 0, gameId |-> 0, value |-> 0]

\* writeContract gave undefined and not a transaction hash
UndefinedHash == 0 - 1

\* eth_getTransactionReceipt: null until the transaction is mined, and for
\* what is no transaction hash
HasReceipt(hash) ==
    hash \in Invocations /\ txs[hash].status \in {"success", "reverted"}

\* A pending purchasePrediction transaction of the App is mined: the contract
\* runs it against the state of that moment. The sender is the wallet's
\* externally owned account, which accepts the refund.
MineTx ==
    \E id \in Invocations :
        /\ txs[id].status = "pending"
        /\ PurchaseEffect(txs[id].from, txs[id].gameId, txs[id].value, TRUE)
        /\ txs' = [txs EXCEPT ![id].status =
                      IF PurchaseResult(txs[id].from, txs[id].gameId,
                                        txs[id].value, TRUE) = Ok
                          THEN "success" ELSE "reverted"]
        /\ UNCHANGED <<lastCall, pendingWithdraws, connVars, gamesVars, uiVars,
                       flowVars, netVars, adminVars, envVars>>

\* A pending withdraw() transaction of the App is mined; its sender is the
\* account the Admin Controls are rendered for.
MineWithdraw ==
    /\ pendingWithdraws > 0
    /\ pendingWithdraws' = pendingWithdraws - 1
    /\ \E sendOk \in SendAnswers(AdminAddress) :
        /\ WithdrawEffect(AdminAddress, sendOk)
        /\ lastCall' = [fn |-> "withdraw", caller |-> AdminAddress,
                        gameId |-> 0, value |-> 0,
                        result |-> WithdrawResult(AdminAddress, sendOk)]
    /\ UNCHANGED <<txs, connVars, gamesVars, uiVars, flowVars, netVars,
                   adminVars, envVars>>

\* The ledger changing underneath the App while it runs: the connected account
\* pays for a game from another session of the App, or
OutOfBandPurchase ==
    \E gameId \in Games :
        /\ isConnected
        /\ PurchaseResult(address, gameId, PaymentValue, TRUE) = Ok
        /\ PurchaseEffect(address, gameId, PaymentValue, TRUE)
        /\ UNCHANGED <<lastCall, appVars>>

\* the owner sets another price.
OwnerUpdatePrice ==
    \E newPrice \in Prices \ {predictionPrice} :
        /\ owner \in Accounts
        /\ UpdatePriceEffect(owner, newPrice)
        /\ UNCHANGED <<lastCall, appVars>>

(***************************************************************************)
(* App: fetchGames, handleGameSelect, handleConnect                        *)
(***************************************************************************)
\* A field the answer does not carry, and the empty string
Undefined == "undefined"
EmptyString == ""

\* JS truthiness of a team name: a string, or absent
Truthy(v) == v \notin {Undefined, EmptyString}

\* A date is <<year, month, day>>, a time <<hour, minute>>; Unparsable is a
\* text new Date() makes no date of.
Unparsable == <<>>

\* A schedule entry as fetchGames reads it
Entry(id, home, away, date, time) ==
    [id |-> id, home_team |-> home, away_team |-> away, date |-> date, time |-> time]

\* a filter that asks for one team name only
KeepEntryEither(game) == Truthy(game.home_team) \/ Truthy(game.away_team)

\* .filter(game => game.home_team && game.away_team)
KeepEntry(game) == Truthy(game.home_team) /\ Truthy(game.away_team)

FilterEntries(sched) == SelectSeq(sched, KeepEntry)

\* new Date(`${date} ${time}`) is Invalid Date (its time value NaN)
IsNaN(game) == game.date = Unparsable \/ game.time = Unparsable

\* Days from 1970-01-01 to the civil date <<y, m, d>> (proleptic Gregorian)
DaysFromCivil(date) ==
    LET y   == IF date[2] <= 2 THEN date[1] - 1 ELSE date[1]
        era == y \div 400
        yoe == y - era * 400
        mp  == (date[2] + 9) % 12
        doy == ((153 * mp + 2) \div 5) + date[3] - 1
        doe == yoe * 365 + (yoe \div 4) - (yoe \div 100) + doy
    IN  era * 146097 + doe - 719468

\* The day of the week, 0 for Sunday: 1970-01-01 was a Thursday
Weekday(days) == (days + 4) % 7

\* The first Sunday on or after a date, and the last one on or before it
FirstSundayFrom(date) ==
    DaysFromCivil(date) + ((7 - Weekday(DaysFromCivil(date))) % 7)

LastSundayUpTo(date) == DaysFromCivil(date) - Weekday(DaysFromCivil(date))

\* The minutes from 1970-01-01 00:00 to the date and time read as they stand
LocalMinutes(game) ==
    DaysFromCivil(game.date) * 1440 + game.time[1] * 60 + game.time[2]

\* Whether a local time of the year is read as daylight saving time. The local
\* times the change to daylight saving time skips are read with the offset
\* before the change, those the change back repeats as the earlier of the two.
\* New York changes on the second Sunday of March, 02:00 becoming 03:00, and
\* on the first Sunday of November, 02:00 becoming 01:00.
DstNewYork(year, local) ==
    /\ local >= (FirstSundayFrom(<<year, 3, 1>>) + 7) * 1440 + 180
    /\ local < FirstSundayFrom(<<year, 11, 1>>) * 1440 + 120

\* London changes on the last Sunday of March, 01:00 becoming 02:00, and on
\* the last Sunday of October, 02:00 becoming 01:00.
DstLondon(year, local) ==
    /\ local >= LastSundayUpTo(<<year, 3, 31>>) * 1440 + 120
    /\ local < LastSundayUpTo(<<year, 10, 31>>) * 1440 + 120

\* The minutes to add to a local time of the zone to get UTC
OffsetToUtc(zone, year, local) ==
    IF zone = "America/New_York"
        THEN (IF DstNewYork(year, local) THEN 240 ELSE 300)
    ELSE IF zone = "Europe/London"
        THEN (IF DstLondon(year, local) THEN 0 - 60 ELSE 0)
    ELSE 0

\* The time value of new Date(`${date} ${time}`) in a browser of that zone,
\* counted in minutes: the text is read as local time
DateTime(zone, game) ==
    LocalMinutes(game) + OffsetToUtc(zone, game.date[1], LocalMinutes(game))

\* The comparator (a, b) => dateTimeA - dateTimeB as sort reads it: a NaN
\* result counts as +0
Compare(zone, a, b) ==
    IF IsNaN(a) \/ IsNaN(b) THEN 0 ELSE DateTime(zone, a) - DateTime(zone, b)

\* Array.prototype.sort with a consistent comparator: a stable sort, done
\* here by insertion.
RECURSIVE InsertSorted(_, _, _)
InsertSorted(zone, sorted, e) ==
    IF sorted = <<>> THEN <<e>>
    ELSE IF Compare(zone, e, sorted[Len(sorted)]) < 0
        THEN Append(InsertSorted(zone, SubSeq(sorted, 1, Len(sorted) - 1), e),
                    sorted[Len(sorted)])
        ELSE Append(sorted, e)

RECURSIVE SortEntries(_, _)
SortEntries(zone, s) ==
    IF s = <<>> THEN <<>>
    ELSE InsertSorted(zone, SortEntries(zone, SubSeq(s, 1, Len(s) - 1)), s[Len(s)])

\* Whether the comparator is consistent on s: with a NaN among different
\* dates, "equal" is not transitive
ConsistentComparator(zone, s) ==
    \A i, j, k \in 1..Len(s) :
        (Compare(zone, s[i], s[j]) = 0 /\ Compare(zone, s[j], s[k]) = 0) =>
            Compare(zone, s[i], s[k]) = 0

\* The orders sort may leave s in: the sorted one, or, the comparator being
\* inconsistent, an order the engine chooses
SortOutcomes(zone, s) ==
    IF ConsistentComparator(zone, s) THEN {SortEntries(zone, s)}
    ELSE {[i \in 1..Len(s) |-> s[p[i]]] : p \in Permutations(1..Len(s))}

\* sortedGames in a browser of that zone, as a set of the possible outcomes
SortedGames(zone, sched) == SortOutcomes(zone, FilterEntries(sched))

Ids(s) == [i \in 1..Len(s) |-> s[i].id]

\* The schedules the API answers with in Spec, where the flow runs
Schedules ==
    { <<Entry(MaxGameId, "KC", "SF", <<2024, 9, 10>>, <<20, 0>>),
        Entry(1, "DAL", "NYG", <<2024, 9, 8>>, <<13, 0>>)>>,
      <<Entry(1, "DAL", "NYG", <<2024, 9, 8>>, <<13, 0>>),
        Entry(MaxGameId, "KC", Undefined, <<2024, 9, 10>>, <<20, 0>>)>>,
      <<>> }

\* The dates and times the API is taken to list: among them two of the night
\* in which New York changes to daylight saving time, and a date that is none
Moments ==
    { <<<<2024, 3, 10>>, <<2, 30>>>>, <<<<2024, 3, 10>>, <<3, 0>>>>,
      <<<<2024, 9, 8>>, <<13, 0>>>>, <<<<2024, 9, 10>>, <<20, 0>>>>,
      <<<<2025, 1, 5>>, <<13, 0>>>>, <<Unparsable, <<13, 0>>>> }

\* The entries the API is taken to list for a game, and all its answers with
\* every game listed at most once
EntriesOf(id) ==
    { Entry(id, home, away, when[1], when[2]) :
        home \in {"KC", Undefined}, away \in {"SF", EmptyString},
        when \in Moments }

AllEntries == UNION { EntriesOf(id) : id \in Games }

AllSchedules ==
    UNION { { sched \in [1..n -> AllEntries] :
                \A i, j \in 1..n : sched[i].id = sched[j].id => i = j } :
            n \in 0..MaxGameId }

\* The mount: useEffect(() => { fetchGames() }, []) runs fetchGames up to its
\* fetch, `runs` times over
Mount(runs) ==
    /\ fgPc = "init"
    /\ fgPc' = "mounted"
    /\ fetching' = runs
    /\ loading' = TRUE
    /\ error' = NoError
    /\ UNCHANGED <<ledgerVars, chainVars, connVars, games, schedule,
                   selectedGame, prediction, loadingPrediction, flowVars,
                   netVars, adminVars, envVars>>

\* The mount in a production build: the effect runs once
FetchGamesStart == Mount(1)

\* The mount in a development build: under <React.StrictMode> the effect
\* runs twice, and two fetchGames calls wait for their answers
FetchGamesStartStrict == Mount(StrictModeRuns)

\* A fetchGames call after the response, in a browser of any of the time
\* zones: a schedule out of `answers`, or one of the failures
FetchGamesReturnFrom(answers) ==
    /\ fetching > 0
    /\ fetching' = fetching - 1
    /\ loading' = FALSE
    /\ \/ \E sched \in answers, zone \in TimeZones :
            \E sortedGames \in SortedGames(zone, sched) :
                /\ games' = Ids(sortedGames)
                /\ schedule' = sched
                /\ UNCHANGED error
       \/ \E m \in {MsgHttpError, MsgInvalidSchedule, NetworkFailure} :
            /\ error' = MsgLoadGamesPrefix \o m
            /\ games' = <<>>
            /\ UNCHANGED schedule
    /\ UNCHANGED <<ledgerVars, chainVars, connVars, fgPc, selectedGame,
                   prediction, loadingPrediction, flowVars, netVars,
                   adminVars, envVars>>

FetchGamesReturn == FetchGamesReturnFrom(Schedules)

\* fetchGames with any answer of the API
FetchGamesAnySchedule == FetchGamesReturnFrom(AllSchedules)

\* handleGameSelect(game), game one of the rendered list. Nothing of a running
\* handleGetPrediction is touched; `reselected` notes that it happened while
\* the invocation polled for its receipt.
handleGameSelect ==
    \E k \in 1..Len(games) :
        /\ ~loading
        /\ selectedGame' = games[k]
        /\ error' = NoError
        /\ inv' = [i \in Invocations |->
                     [inv[i] EXCEPT !.reselected =
                         (@ \/ (inv[i].pc = "poll" /\ games[k] # selectedGame))]]
        /\ UNCHANGED <<ledgerVars, chainVars, connVars, gamesVars, prediction,
                       loadingPrediction, invocations, netVars, adminVars,
                       envVars>>

\* The Connect Wallet button is clicked while fewer than maxWaiting earlier
\* connection requests wait for the wallet: handleConnect, whose connect()
\* hands the request to the wallet. The button is rendered while no wallet
\* is connected.
handleConnect(maxWaiting) ==
    /\ ~isConnected
    /\ connecting < maxWaiting
    /\ connecting' = connecting + 1
    /\ error' = NoError
    /\ networkError' = NoError
    /\ UNCHANGED <<ledgerVars, chainVars, isConnected, address, gamesVars,
                   selectedGame, prediction, loadingPrediction, flowVars,
                   chainId, chainChanges, networkInfo, netChecked, netRuns,
                   adminVars, envVars>>

\* The click of a user who waits for the wallet before clicking again
handleConnectStart == handleConnect(1)

\* The click, also while earlier requests wait for the wallet
handleConnectAgain == handleConnect(MaxConnects)

\* The wallet answers a connection request. connect is the mutate of
\* useConnect: the await of handleConnect gets undefined and never throws, so
\* the catch does not run. The wallet connects as some account (as the one it
\* is connected with already, if it is), which useAccount shows, or it
\* refuses, which changes nothing of the page: the failure goes to the error
\* field of useConnect, which App does not read.
handleConnectReturn ==
    /\ connecting > 0
    /\ connecting' = connecting - 1
    /\ \/ /\ \E a \in Accounts :
                /\ isConnected => a = address
                /\ address' = a
          /\ isConnected' = TRUE
       \/ UNCHANGED <<isConnected, address>>
    /\ UNCHANGED error
    /\ UNCHANGED <<ledgerVars, chainVars, gamesVars, selectedGame, prediction,
                   loadingPrediction, flowVars, netVars, adminVars, envVars>>

\* useReadContract(predictionPrice): a fetch of the hook succeeds and data is
\* the price of that moment. A fetch that fails leaves data as it was,
\* undefined if none succeeded yet.
PriceReadReturn ==
    /\ currentPrice # predictionPrice
    /\ currentPrice' = predictionPrice
    /\ UNCHANGED <<ledgerVars, chainVars, connVars, gamesVars, uiVars,
                   flowVars, netVars, adminVars>>

(***************************************************************************)
(* App: checkNetwork                                                       *)
(***************************************************************************)
NoRuns == [chainId |-> 0, switch |-> 0, add |-> 0]

\* checkNetwork up to its first await, with a connected wallet: one more call
\* waits for eth_chainId
CheckNetworkBegin(runs) == [runs EXCEPT !.chainId = @ + 1]

\* What the calls are when one of them leaves the request `from`, for the
\* request `to` or, with `to` "end", for good
Moved(runs, from, to) ==
    IF to = "end" THEN [runs EXCEPT ![from] = @ - 1]
    ELSE [runs EXCEPT ![from] = @ - 1, ![to] = @ + 1]

\* useEffect(..., [isConnected]) runs checkNetwork once the wallet is
\* connected, and registers it as the chainChanged listener
CheckNetworkOnConnect ==
    /\ isConnected /\ ~netChecked
    /\ netChecked' = TRUE
    /\ netRuns' = CheckNetworkBegin(netRuns)
    /\ UNCHANGED <<ledgerVars, chainVars, connVars, gamesVars, uiVars,
                   flowVars, chainId, chainChanges, networkInfo, networkError,
                   adminVars, envVars>>

\* The user changes the chain in the wallet; the wallet emits chainChanged
\* and the listener runs checkNetwork, whatever other calls of it are under
\* way. The listener of the effect that ran without a connected wallet does
\* nothing.
UserChangesChain ==
    /\ chainChanges < MaxChainChanges
    /\ chainChanges' = chainChanges + 1
    /\ \E c \in Chains \ {chainId} : chainId' = c
    /\ netRuns' = IF isConnected /\ netChecked THEN CheckNetworkBegin(netRuns)
                  ELSE netRuns
    /\ UNCHANGED <<ledgerVars, chainVars, connVars, gamesVars, uiVars,
                   flowVars, networkInfo, networkError, netChecked, adminVars,
                   envVars>>

\* eth_chainId answers a call: on another chain the messages are set and
\* wallet_switchEthereumChain is requested, on Avalanche the call ends
ChainIdAnswered ==
    /\ netRuns.chainId > 0
    /\ IF chainId # AVALANCHE_CHAIN_ID
          THEN /\ networkInfo' = MsgWrongNetwork
               /\ networkError' = MsgPleaseSwitch
               /\ netRuns' = Moved(netRuns, "chainId", "switch")
          ELSE /\ networkInfo' = MsgAvalancheNetwork
               /\ networkError' = NoError
               /\ netRuns' = Moved(netRuns, "chainId", "end")
    /\ UNCHANGED <<ledgerVars, chainVars, connVars, gamesVars, uiVars,
                   flowVars, chainId, chainChanges, netChecked, adminVars,
                   envVars>>

\* eth_chainId throws: the outer catch
ChainIdThrows ==
    /\ netRuns.chainId > 0
    /\ networkError' = MsgCheckFailed
    /\ netRuns' = Moved(netRuns, "chainId", "end")
    /\ UNCHANGED <<ledgerVars, chainVars, connVars, gamesVars, uiVars,
                   flowVars, chainId, chainChanges, networkInfo, netChecked,
                   adminVars, envVars>>

\* The calls after a request of the App has put the wallet on Avalanche: the
\* requesting call has ended, and if the chain changed by it the wallet
\* emitted chainChanged and the listener started another call
AfterMoveToAvalanche(from) ==
    IF chainId # AVALANCHE_CHAIN_ID
        THEN CheckNetworkBegin(Moved(netRuns, from, "end"))
        ELSE Moved(netRuns, from, "end")

\* wallet_switchEthereumChain returns: the wallet is on Avalanche
SwitchAccepted ==
    /\ netRuns.switch > 0
    /\ chainId' = AVALANCHE_CHAIN_ID
    /\ netRuns' = AfterMoveToAvalanche("switch")
    /\ UNCHANGED <<ledgerVars, chainVars, connVars, gamesVars, uiVars,
                   flowVars, chainChanges, networkInfo, networkError,
                   netChecked, adminVars, envVars>>

\* wallet_switchEthereumChain throws: with code 4902, for a chain the wallet
\* does not know, wallet_addEthereumChain is requested; another error is
\* dropped by the catch
SwitchRefused ==
    /\ netRuns.switch > 0
    /\ \E to \in {"add", "end"} : netRuns' = Moved(netRuns, "switch", to)
    /\ UNCHANGED <<ledgerVars, chainVars, connVars, gamesVars, uiVars,
                   flowVars, chainId, chainChanges, networkInfo, networkError,
                   netChecked, adminVars, envVars>>

\* wallet_addEthereumChain returns, the wallet having moved to the added
\* chain or not
AddChainAccepted ==
    /\ netRuns.add > 0
    /\ \/ /\ chainId' = AVALANCHE_CHAIN_ID
          /\ netRuns' = AfterMoveToAvalanche("add")
       \/ /\ netRuns' = Moved(netRuns, "add", "end")
          /\ UNCHANGED chainId
    /\ UNCHANGED <<ledgerVars, chainVars, connVars, gamesVars, uiVars,
                   flowVars, chainChanges, networkInfo, networkError,
                   netChecked, adminVars, envVars>>

\* wallet_addEthereumChain throws
AddChainThrows ==
    /\ netRuns.add > 0
    /\ networkError' = MsgAddFailed
    /\ netRuns' = Moved(netRuns, "add", "end")
    /\ UNCHANGED <<ledgerVars, chainVars, connVars, gamesVars, uiVars,
                   flowVars, chainId, chainChanges, networkInfo, netChecked,
                   adminVars, envVars>>

(***************************************************************************)
(* App: handleGetPrediction                                                *)
(***************************************************************************)
\* An invocation that was never started
NoInvocation ==
    [pc |-> "idle", game |-> 0, readArgs |-> 0, txResponse |-> 0,
     reads |-> <<>>, submits |-> 0, fetches |-> <<>>, thrown |-> NoError,
     outcome |-> NotStarted, reselected |-> FALSE]

\* An invocation up to its first await, for the game of its closure
Started(gameId) ==
    [NoInvocation EXCEPT !.pc = "check", !.game = gameId,
                         !.readArgs = gameId, !.outcome = Running]

\* The invocation r after it has ended the way `out` says
Ended(r, out) == [r EXCEPT !.pc = "idle", !.outcome = out, !.reselected = FALSE]

\* accessResult.data of refetchAccess(): the contract's answer for
\* (address, gameId), or undefined when the read failed
AccessData(gameId) ==
    { IF canAccessPrediction(address, gameId) THEN "true" ELSE "false", "undefined" }

\* a flow that asks for payment whatever the access check said
NeedsPaymentAlways(data) == TRUE

\* if (!hasAccess)
NeedsPayment(data) == ~(data = "true")

\* a flow that does not look at the re-check
VerificationNeverFails(data) == FALSE

\* if (!newAccessResult.data) throw ...
VerificationFails(data) == ~(data = "true")

\* a flow that does not recognise the rejection
IsUserRejectedNever(m) == FALSE

\* txError.message.includes('User rejected the transaction')
IsUserRejected(m) == Includes(m, TextUserRejected)

\* txError.message.includes('insufficient funds')
IsInsufficientFunds(m) == Includes(m, TextInsufficientFunds)

\* the error state the success branch leaves: setError(null)
ErrorOnSuccess == NoError

\* an outer catch with no finally
FlowFailKeepsLoading(i, r, m) ==
    /\ error' = IF m = <<>> THEN MsgFailedFallback ELSE m
    /\ prediction' = 0
    /\ loadingPrediction' = TRUE
    /\ inv' = [inv EXCEPT ![i] = Ended(r, error')]

\* The outer catch and finally end invocation i, which has got as far as r,
\* with err.message = m: one message, no prediction, not loading
FlowFail(i, r, m) ==
    /\ error' = IF m = <<>> THEN MsgFailedFallback ELSE m
    /\ prediction' = 0
    /\ loadingPrediction' = FALSE
    /\ inv' = [inv EXCEPT ![i] = Ended(r, error')]

\* the inner catch (txError) and what follows it
TxError(i, r, m) ==
    IF IsUserRejected(m)
        THEN /\ error' = MsgCancelled
             /\ loadingPrediction' = FALSE
             /\ inv' = [inv EXCEPT ![i] =
                            Ended([r EXCEPT !.thrown = m], MsgCancelled)]
             /\ UNCHANGED prediction
    ELSE IF IsInsufficientFunds(m)
        THEN FlowFail(i, [r EXCEPT !.thrown = m], MsgInsufficient)
    ELSE FlowFail(i, [r EXCEPT !.thrown = m], m)

\* The invocations when one more is started for the selected game; what is
\* noted of the invocations that have ended is dropped
WithStarted ==
    [i \in Invocations |->
        IF i = invocations + 1 THEN Started(selectedGame)
        ELSE IF inv[i].pc = "idle" THEN NoInvocation
        ELSE inv[i]]

\* a handler without its second early return
GetPredictionBodyNoConnectCheck ==
    IF selectedGame = 0 THEN UNCHANGED <<uiVars, flowVars>>
    ELSE /\ invocations' = invocations + 1
         /\ loadingPrediction' = TRUE
         /\ prediction' = 0
         /\ error' = NoError
         /\ inv' = WithStarted
         /\ UNCHANGED selectedGame

\* handleGetPrediction up to the first await: the two early returns, then
\* the reset of the state and the call of refetchAccess()
GetPredictionBody ==
    IF selectedGame = 0 THEN UNCHANGED <<uiVars, flowVars>>
    ELSE IF ~isConnected
        THEN /\ error' = MsgConnectFirst
             /\ UNCHANGED <<selectedGame, prediction, loadingPrediction,
                            flowVars>>
    ELSE /\ invocations' = invocations + 1
         /\ loadingPrediction' = TRUE
         /\ prediction' = 0
         /\ error' = NoError
         /\ inv' = WithStarted
         /\ UNCHANGED selectedGame

\* The Get Prediction button is clicked: it is rendered for a selected game
\* and a connected wallet, and disabled while loadingPrediction.
handleGetPrediction ==
    /\ selectedGame # 0 /\ isConnected
    /\ ~loadingPrediction
    /\ invocations < MaxInvocations
    /\ GetPredictionBody
    /\ UNCHANGED <<ledgerVars, chainVars, connVars, gamesVars, netVars,
                   adminVars, envVars>>

\* handleGetPrediction called whatever the page renders: with no game
\* selected, with no wallet connected, or while an earlier invocation is
\* under way, which goes on beside the new one
InvokeGetPrediction ==
    /\ invocations < MaxInvocations
    /\ GetPredictionBody
    /\ UNCHANGED <<ledgerVars, chainVars, connVars, gamesVars, netVars,
                   adminVars, envVars>>

\* the initial refetchAccess() of invocation i returns
CheckAccessReturn(i) ==
    /\ inv[i].pc = "check"
    /\ \E data \in AccessData(inv[i].readArgs) :
        LET r == [inv[i] EXCEPT !.reads =
                     Append(@, [gameId |-> inv[i].readArgs, data |-> data])]
        IN  IF NeedsPayment(data)
              THEN /\ error' = MsgConfirmInWallet
                   /\ inv' = [inv EXCEPT ![i] =
                                 [r EXCEPT !.submits = @ + 1, !.pc = "submit"]]
              ELSE /\ inv' = [inv EXCEPT ![i] =
                                 [r EXCEPT !.fetches = Append(@, r.game),
                                           !.pc = "fetch"]]
                   /\ UNCHANGED error
    /\ UNCHANGED <<ledgerVars, chainVars, connVars, gamesVars, selectedGame,
                   prediction, loadingPrediction, invocations, netVars,
                   adminVars, envVars>>

\* Errors writeContract can end with: the wallet's, or the revert reason of
\* the contract when the call would revert
SubmitErrors(gameId) ==
    {WalletUserRejected, WalletInsufficientFunds, NetworkFailure}
    \cup ({PurchaseResult(address, gameId, PaymentValue, TRUE)} \ {Ok})

\* The purchasePrediction transaction invocation i asks the wallet for
PurchaseTx(i) ==
    [status |-> "pending", from |-> address, gameId |-> inv[i].game,
     value |-> PaymentValue]

\* await writeContract(purchasePrediction) of invocation i is over. wagmi is
\* not part of the sources: the call returns the transaction hash, throws, or
\* (the mutate function of wagmi 2) returns undefined while the wallet is
\* still asked, whether or not a transaction comes of it.
SubmitReturn(i) ==
    /\ inv[i].pc = "submit"
    /\ \/ /\ PurchaseResult(address, inv[i].game, PaymentValue, TRUE) = Ok
          /\ txs' = [txs EXCEPT ![i] = PurchaseTx(i)]
          /\ inv' = [inv EXCEPT ![i].txResponse = i, ![i].pc = "poll"]
          /\ error' = MsgSubmitted
          /\ UNCHANGED <<prediction, loadingPrediction>>
       \/ /\ \/ UNCHANGED txs
             \/ /\ PurchaseResult(address, inv[i].game, PaymentValue, TRUE) = Ok
                /\ txs' = [txs EXCEPT ![i] = PurchaseTx(i)]
          /\ inv' = [inv EXCEPT ![i].txResponse = UndefinedHash,
                                ![i].pc = "poll"]
          /\ error' = MsgSubmitted
          /\ UNCHANGED <<prediction, loadingPrediction>>
       \/ \E m \in SubmitErrors(inv[i].game) :
          /\ TxError(i, inv[i], m)
          /\ UNCHANGED txs
    /\ UNCHANGED <<ledgerVars, pendingWithdraws, connVars, gamesVars,
                   selectedGame, invocations, netVars, adminVars, envVars>>

\* a loop that goes on to the re-check without a receipt
PollReceiptNoWait(i) ==
    /\ inv[i].pc = "poll"
    /\ \/ /\ error' = MsgConfirmed
          /\ inv' = [inv EXCEPT ![i].readArgs = selectedGame,
                                ![i].pc = "recheck"]
          /\ UNCHANGED <<prediction, loadingPrediction>>
       \/ TxError(i, inv[i], NetworkFailure)
    /\ UNCHANGED <<ledgerVars, chainVars, connVars, gamesVars, selectedGame,
                   invocations, netVars, adminVars, envVars>>

\* eth_getTransactionReceipt answers invocation i with the receipt (a null
\* answer changes nothing and the loop asks again), or the request throws.
\* With the receipt the flow calls refetchAccess(), the refetch of the
\* useReadContract hook, whose args are [address, selectedGame.id] of the
\* component's current state, while the handler itself keeps the
\* selectedGame it was created with.
PollReceipt(i) ==
    /\ inv[i].pc = "poll"
    /\ \/ /\ HasReceipt(inv[i].txResponse)
          /\ error' = MsgConfirmed
          /\ inv' = [inv EXCEPT ![i].readArgs = selectedGame,
                                ![i].pc = "recheck"]
          /\ UNCHANGED <<prediction, loadingPrediction>>
       \/ TxError(i, inv[i], NetworkFailure)
    /\ UNCHANGED <<ledgerVars, chainVars, connVars, gamesVars, selectedGame,
                   invocations, netVars, adminVars, envVars>>

\* a re-check that submits the payment again when verification fails
RecheckReturnRetry(i) ==
    /\ inv[i].pc = "recheck"
    /\ \E data \in AccessData(inv[i].readArgs) :
        LET r == [inv[i] EXCEPT !.reads =
                     Append(@, [gameId |-> inv[i].readArgs, data |-> data])]
        IN  IF VerificationFails(data)
              THEN /\ error' = MsgConfirmInWallet
                   /\ inv' = [inv EXCEPT ![i] =
                                 [r EXCEPT !.submits = @ + 1, !.pc = "submit"]]
                   /\ UNCHANGED <<prediction, loadingPrediction>>
              ELSE /\ inv' = [inv EXCEPT ![i] =
                                 [r EXCEPT !.fetches = Append(@, r.game),
                                           !.pc = "fetch"]]
                   /\ UNCHANGED <<error, prediction, loadingPrediction>>
    /\ UNCHANGED <<ledgerVars, chainVars, connVars, gamesVars, selectedGame,
                   invocations, netVars, adminVars, envVars>>

\* the refetchAccess() invocation i made after the receipt returns
RecheckReturn(i) ==
    /\ inv[i].pc = "recheck"
    /\ \E data \in AccessData(inv[i].readArgs) :
        LET r == [inv[i] EXCEPT !.reads =
                     Append(@, [gameId |-> inv[i].readArgs, data |-> data])]
        IN  IF VerificationFails(data)
              THEN TxError(i, r, MsgVerificationFailed)
              ELSE /\ inv' = [inv EXCEPT ![i] =
                                 [r EXCEPT !.fetches = Append(@, r.game),
                                           !.pc = "fetch"]]
                   /\ UNCHANGED <<error, prediction, loadingPrediction>>
    /\ UNCHANGED <<ledgerVars, chainVars, connVars, gamesVars, selectedGame,
                   invocations, netVars, adminVars, envVars>>

\* The answers of GET predict/{id}: the HTTP status, and the fields of the body
Responses ==
    [ok : BOOLEAN, success : BOOLEAN, prediction : BOOLEAN, error : BOOLEAN]

\* What the flow makes of an answer: Ok, or the message it throws
PredictOutcome(resp) ==
    IF ~resp.ok THEN (IF resp.error THEN ServerSaid ELSE MsgServerStatus)
    ELSE IF resp.success /\ resp.prediction THEN Ok
    ELSE IF resp.error THEN ServerSaid
    ELSE MsgNoPrediction

\* fetch(predict/{id}) and response.json() of invocation i return resp
FetchAnswered(i, resp) ==
    /\ inv[i].pc = "fetch"
    /\ IF PredictOutcome(resp) = Ok
          THEN /\ error' = ErrorOnSuccess
               /\ prediction' = inv[i].game
               /\ loadingPrediction' = FALSE
               /\ inv' = [inv EXCEPT ![i] = Ended(inv[i], Ok)]
          ELSE FlowFail(i, inv[i], PredictOutcome(resp))
    /\ UNCHANGED <<ledgerVars, chainVars, connVars, gamesVars, selectedGame,
                   invocations, netVars, adminVars, envVars>>

\* fetch(predict/{id}) or response.json() of invocation i throws
FetchThrows(i) ==
    /\ inv[i].pc = "fetch"
    /\ \E m \in {NetworkFailure, <<>>} : FlowFail(i, inv[i], m)
    /\ UNCHANGED <<ledgerVars, chainVars, connVars, gamesVars, selectedGame,
                   invocations, netVars, adminVars, envVars>>

\* fetch(predict/{id}) and response.json() return, or one of them throws
FetchReturn(i) ==
    \/ \E resp \in Responses : FetchAnswered(i, resp)
    \/ FetchThrows(i)

(***************************************************************************)
(* App: handleWithdraw                                                     *)
(***************************************************************************)
NoWithdrawals == [calls |-> 0, submit |-> 0, wait |-> 0, clear |-> 0]

\* Errors writeContract(withdraw) can end with: the wallet's, or the revert
\* reason of the contract when the call would revert
WithdrawErrors ==
    {WalletUserRejected, NetworkFailure}
    \cup ({WithdrawResult(address, TRUE)} \ {Ok})

\* The Withdraw Funds button is clicked, also while an earlier call is under
\* way: handleWithdraw up to the await. The Admin Controls are rendered for a
\* wallet connected with the admin address.
handleWithdraw ==
    /\ isConnected /\ address = AdminAddress
    /\ wdRuns.calls < MaxWithdrawals
    /\ wdRuns' = [wdRuns EXCEPT !.calls = @ + 1, !.submit = @ + 1]
    /\ withdrawalStatus' = MsgInitiating
    /\ error' = NoError
    /\ UNCHANGED <<ledgerVars, chainVars, connVars, gamesVars, selectedGame,
                   prediction, loadingPrediction, flowVars, netVars, envVars>>

\* await writeContract(withdraw) of a handleWithdraw call is over: it returned
\* (a hash, or undefined), a transaction having come of it or not, and the
\* call waits for its 5 s timer; or it threw and the catch ran
WithdrawSubmitReturn ==
    /\ wdRuns.submit > 0
    /\ \/ /\ withdrawalStatus' = MsgWaitingConfirmation
          /\ wdRuns' = [wdRuns EXCEPT !.submit = @ - 1, !.wait = @ + 1]
          /\ pendingWithdraws' \in {pendingWithdraws, pendingWithdraws + 1}
       \/ \E m \in WithdrawErrors :
          /\ withdrawalStatus' = MsgWithdrawalFailedPrefix \o m
          /\ wdRuns' = [wdRuns EXCEPT !.submit = @ - 1]
          /\ UNCHANGED pendingWithdraws
    /\ UNCHANGED <<ledgerVars, txs, connVars, gamesVars, uiVars, flowVars,
                   netVars, envVars>>

\* The 5 s timer of a handleWithdraw call fires: the success message is set,
\* whatever became of the transaction, and the 3 s timer is started
WithdrawTimerFires ==
    /\ wdRuns.wait > 0
    /\ withdrawalStatus' = MsgWithdrawalSuccessful
    /\ wdRuns' = [wdRuns EXCEPT !.wait = @ - 1, !.clear = @ + 1]
    /\ UNCHANGED <<ledgerVars, chainVars, connVars, gamesVars, uiVars,
                   flowVars, netVars, envVars>>

\* The 3 s timer fires: setWithdrawalStatus('')
WithdrawStatusCleared ==
    /\ wdRuns.clear > 0
    /\ withdrawalStatus' = <<>>
    /\ wdRuns' = [wdRuns EXCEPT !.clear = @ - 1]
    /\ UNCHANGED <<ledgerVars, chainVars, connVars, gamesVars, uiVars,
                   flowVars, netVars, envVars>>

(***************************************************************************)
(* Specifications                                                          *)
(***************************************************************************)
Init ==
    /\ owner = Deployer
    /\ predictionPrice \in Prices
    /\ hasPaidForPrediction = [a \in Accounts |-> [g \in Games |-> FALSE]]
    /\ balance = 0
    /\ collected = 0
    /\ lastCall = NoCall
    /\ txs = [id \in Invocations |-> NoTx]
    /\ pendingWithdraws = 0
    /\ isConnected = FALSE
    /\ address = 0
    /\ games = <<>>
    /\ schedule = <<>>
    /\ loading = FALSE
    /\ selectedGame = 0
    /\ error = NoError
    /\ prediction = 0
    /\ loadingPrediction = FALSE
    /\ currentPrice = 0
    /\ networkInfo = NoError
    /\ networkError = NoError
    /\ withdrawalStatus = <<>>
    /\ chainId = AVALANCHE_CHAIN_ID
    /\ chainChanges = 0
    /\ fgPc = "init"
    /\ fetching = 0
    /\ connecting = 0
    /\ netChecked = FALSE
    /\ netRuns = NoRuns
    /\ wdRuns = NoWithdrawals
    /\ invocations = 0
    /\ inv = [i \in Invocations |-> NoInvocation]

\* The ledger changing beside the App, and the mining of the App's purchases
NextChain ==
    \/ OutOfBandPurchase
    \/ OwnerUpdatePrice
    \/ MineTx

\* The continuations of handleGetPrediction
NextFlow ==
    \/ \E i \in Invocations : CheckAccessReturn(i)
    \/ \E i \in Invocations : SubmitReturn(i)
    \/ \E i \in Invocations : PollReceipt(i)
    \/ \E i \in Invocations : RecheckReturn(i)
    \/ \E i \in Invocations : FetchReturn(i)

\* The App in a production build, used by one who clicks a button the page
\* shows and waits for the wallet before clicking Connect again
Next ==
    \/ NextChain
    \/ FetchGamesStart
    \/ FetchGamesReturn
    \/ handleGameSelect
    \/ handleConnectStart
    \/ handleConnectReturn
    \/ handleGetPrediction
    \/ NextFlow

Spec == Init /\ [][Next]_vars

\* The App with the price hook's reads
NextPrice ==
    \/ Next
    \/ PriceReadReturn

SpecPrice == Init /\ [][NextPrice]_vars

\* The App with handleGetPrediction callable in every state
NextDirect ==
    \/ MineTx
    \/ FetchGamesStart
    \/ FetchGamesReturn
    \/ handleGameSelect
    \/ handleConnectStart
    \/ handleConnectReturn
    \/ InvokeGetPrediction
    \/ NextFlow

SpecDirect == Init /\ [][NextDirect]_vars

\* handleWithdraw and its continuations
NextAdmin ==
    \/ handleWithdraw
    \/ WithdrawSubmitReturn
    \/ WithdrawTimerFires
    \/ WithdrawStatusCleared

\* Every handler that sets an error message, in a development build, with
\* clicks that do not wait for the calls under way
NextPage ==
    \/ MineTx
    \/ FetchGamesStartStrict
    \/ FetchGamesReturn
    \/ handleGameSelect
    \/ handleConnectAgain
    \/ handleConnectReturn
    \/ handleGetPrediction
    \/ NextFlow

SpecPage == Init /\ [][NextPage]_vars

\* withdraw() called by any account, and by the admin through the Withdraw
\* Funds button, on a contract that the connected account pays into
NextAdminLedger ==
    \/ OutOfBandPurchase
    \/ Withdraw
    \/ TransferOwnership
    \/ RenounceOwnership
    \/ handleConnectStart
    \/ handleConnectReturn
    \/ NextAdmin
    \/ MineWithdraw

SpecAdmin == Init /\ [][NextAdminLedger]_vars

\* The wallet connection and the network check
NextNetwork ==
    \/ handleConnectAgain
    \/ handleConnectReturn
    \/ UserChangesChain
    \/ CheckNetworkOnConnect
    \/ ChainIdAnswered
    \/ ChainIdThrows
    \/ SwitchAccepted
    \/ SwitchRefused
    \/ AddChainAccepted
    \/ AddChainThrows

SpecNetwork == Init /\ [][NextNetwork]_vars

\* fetchGames alone, with any answer of the API
NextSchedule ==
    \/ FetchGamesStart
    \/ FetchGamesAnySchedule

SpecSchedule == Init /\ [][NextSchedule]_vars

\* The contract alone, called by any account
NextLedger ==
    \/ PurchasePrediction
    \/ UpdatePrice
    \/ Withdraw
    \/ TransferOwnership
    \/ RenounceOwnership

SpecLedger == Init /\ [][NextLedger]_vars

\* The loop of handleGetPrediction observes the receipt
PollObservesReceipt(i) == PollReceipt(i) /\ inv'[i].pc = "recheck"

\* The App when every awaited call of handleGetPrediction is answered (a
\* continuation runs once its promise is settled) and every pending
\* transaction is mined. A request that throws is possible, never forced.
Fairness ==
    /\ WF_vars(\E i \in Invocations : CheckAccessReturn(i))
    /\ WF_vars(\E i \in Invocations : SubmitReturn(i))
    /\ WF_vars(MineTx)
    /\ WF_vars(\E i \in Invocations : PollObservesReceipt(i))
    /\ WF_vars(\E i \in Invocations : RecheckReturn(i))
    /\ WF_vars(\E i \in Invocations : FetchReturn(i))

\* The page and the chain that mines its transactions, no other caller of
\* the contract
NextLive ==
    \/ MineTx
    \/ FetchGamesStart
    \/ FetchGamesReturn
    \/ handleGameSelect
    \/ handleConnectStart
    \/ handleConnectReturn
    \/ handleGetPrediction
    \/ NextFlow

SpecLive == Init /\ [][NextLive]_vars /\ Fairness

(***************************************************************************)
(* Properties                                                              *)
(***************************************************************************)
\* C1: predict/{event.id} is requested only after a canAccessPrediction read
\* of the same invocation returned true for the same (account, event.id).
C1_FetchOnlyAfterOwnAccessRead ==
    \A i \in Invocations :
        \A k \in 1..Len(inv[i].fetches) :
            \E j \in 1..Len(inv[i].reads) :
                /\ inv[i].reads[j].gameId = inv[i].fetches[k]
                /\ inv[i].reads[j].data = "true"

\* C2: an invocation whose initial access check returned true submits no
\* payment and requests predict/{event.id} straight away, with no second read.
C2_AccessSkipsPayment ==
    \A i \in Invocations :
        (inv[i].reads # <<>> /\ inv[i].reads[1].data = "true") =>
            /\ inv[i].submits = 0
            /\ inv[i].fetches = <<inv[i].game>>
            /\ Len(inv[i].reads) = 1

\* the flow was invoked again after its own payment for the game was mined,
\* and shows the prediction without another submission
C2_Witness ==
    /\ invocations = 2
    /\ txs[1].status = "success" /\ txs[1].gameId = inv[2].game
    /\ inv[2].reads = <<[gameId |-> inv[2].game, data |-> "true"]>>
    /\ inv[2].submits = 0
    /\ prediction = inv[2].game

\* C3: when the wallet reports that the user rejected the payment, the
\* invocation ends with the cancellation message, no prediction and no
\* request to predict/{event.id}, then or later.
C3_CancelEndsWithoutFetch ==
    /\ [][\A i \in Invocations :
            (/\ inv[i].pc = "submit" /\ inv'[i].pc = "idle"
             /\ inv'[i].thrown = WalletUserRejected) =>
                (/\ error' = MsgCancelled /\ prediction' = 0
                 /\ ~loadingPrediction' /\ inv'[i].fetches = <<>>)]_vars
    /\ [](\A i \in Invocations :
            (inv[i].pc = "idle" /\ inv[i].thrown = WalletUserRejected) =>
                (/\ inv[i].outcome = MsgCancelled /\ prediction = 0
                 /\ inv[i].fetches = <<>>))

C3_Witness ==
    \E i \in Invocations :
        /\ inv[i].pc = "idle" /\ inv[i].thrown = WalletUserRejected
        /\ inv[i].reads = <<[gameId |-> inv[i].game, data |-> "false"]>>
        /\ error = MsgCancelled

\* C4: when the access re-check made after the receipt does not return true,
\* the invocation ends with the verification-failed message, requests no
\* prediction and has submitted exactly one payment.
C4_FailedVerificationStops ==
    /\ [][\A i \in Invocations :
            (/\ inv[i].pc = "recheck"
             /\ Len(inv'[i].reads) > Len(inv[i].reads)
             /\ inv'[i].reads[Len(inv'[i].reads)].data # "true") =>
                (/\ inv'[i].pc = "idle" /\ error' = MsgVerificationFailed
                 /\ prediction' = 0 /\ ~loadingPrediction'
                 /\ inv'[i].fetches = <<>> /\ inv'[i].submits = 1)]_vars
    /\ [](\A i \in Invocations :
            (inv[i].pc = "idle" /\ inv[i].outcome = MsgVerificationFailed) =>
                (/\ inv[i].fetches = <<>> /\ inv[i].submits = 1
                 /\ prediction = 0))

C4_Witness ==
    \E i \in Invocations :
        /\ inv[i].pc = "idle" /\ inv[i].outcome = MsgVerificationFailed
        /\ HasReceipt(inv[i].txResponse)
        /\ Len(inv[i].reads) = 2 /\ inv[i].reads[2].data = "false"

\* C5: when the submission fails for an insufficient payment (the contract's
\* "Insufficient payment" or the wallet's insufficient funds), the invocation
\* ends with the specific insufficient-funds message and requests no prediction.
C5_InsufficientIsSpecific ==
    \A i \in Invocations :
        (/\ inv[i].pc = "idle"
         /\ inv[i].thrown \in {InsufficientPaymentReason, WalletInsufficientFunds}) =>
            (inv[i].outcome = MsgInsufficient /\ inv[i].fetches = <<>>)

\* C6: an invocation submits purchasePrediction at most once and requests the
\* prediction at most once.
C6_AtMostOneSubmitAndFetch ==
    \A i \in Invocations : inv[i].submits <= 1 /\ Len(inv[i].fetches) <= 1

\* a failed first invocation was followed by a second one, and each of the
\* two submitted its own transaction
C6_Witness ==
    /\ invocations = 2 /\ inv[2].submits = 1
    /\ txs[1].status # "none" /\ txs[2].status # "none"
    /\ inv[2].pc = "idle" /\ inv[2].outcome # Ok

\* C7: the error and the prediction are never both set; an invocation that
\* failed leaves no prediction and a message, one that succeeded leaves the
\* prediction and no error.
C7_ErrorOrPrediction ==
    /\ prediction # 0 => error = NoError
    /\ \A i \in Invocations :
        /\ (inv[i].pc = "idle" /\ inv[i].outcome \notin {Ok, NotStarted}) =>
                (prediction = 0 /\ inv[i].outcome # NoError)
        /\ (inv[i].pc = "idle" /\ inv[i].outcome = Ok) =>
                prediction = inv[i].game

\* C8: a pair marked paid stays marked under every call, and a change of the
\* price changes no pair's access.
C8_PaidStaysPaid ==
    [][/\ \A a \in Accounts, g \in Games :
            canAccessPrediction(a, g) => hasPaidForPrediction'[a][g]
       /\ predictionPrice' # predictionPrice =>
            hasPaidForPrediction' = hasPaidForPrediction]_vars

\* the owner changed the price after more than one purchase had been made
C8_Witness ==
    /\ lastCall.fn = "updatePrice" /\ lastCall.result = Ok
    /\ Cardinality({ag \in Accounts \X Games :
                        canAccessPrediction(ag[1], ag[2])}) >= 2

\* C9: purchasePrediction below the price fails with "Insufficient payment",
\* at or above it by a caller who has access with "Already purchased"; both
\* leave the mapping and the balance as they were, so nobody pays twice.
C9_PurchaseFailures ==
    [][lastCall'.fn = "purchasePrediction" =>
        /\ lastCall'.value < predictionPrice =>
                lastCall'.result = InsufficientPaymentReason
        /\ (lastCall'.value >= predictionPrice
            /\ canAccessPrediction(lastCall'.caller, lastCall'.gameId)) =>
                lastCall'.result = AlreadyPurchasedReason
        /\ lastCall'.result \in {InsufficientPaymentReason, AlreadyPurchasedReason} =>
                (hasPaidForPrediction' = hasPaidForPrediction /\ balance' = balance)
        /\ canAccessPrediction(lastCall'.caller, lastCall'.gameId) =>
                balance' = balance]_vars

\* a caller with access paid again and was turned away
C9_Witness ==
    /\ lastCall.fn = "purchasePrediction"
    /\ lastCall.result = AlreadyPurchasedReason
    /\ lastCall.value >= predictionPrice
    /\ balance > 0

\* C10: withdraw succeeds only for the owner of that moment and a positive
\* balance; another caller gets the not-owner error, the owner with a zero
\* balance the nothing-to-withdraw error, and a failed withdraw changes
\* nothing.
C10_WithdrawGuards ==
    [][(Withdraw \/ MineWithdraw) =>
        /\ lastCall'.fn = "withdraw"
        /\ lastCall'.result = Ok => (lastCall'.caller = owner /\ balance > 0)
        /\ lastCall'.caller # owner => lastCall'.result = NotOwnerReason
        /\ (lastCall'.caller = owner /\ balance = 0) =>
                lastCall'.result = NoBalanceReason
        /\ lastCall'.result # Ok =>
                /\ balance' = balance
                /\ hasPaidForPrediction' = hasPaidForPrediction
        /\ owner' = owner]_vars

\* the deployer, who handed the ownership to another account, tried to take
\* the fees and was turned away, after a withdrawal through the App
C10_Witness ==
    /\ lastCall.fn = "withdraw" /\ lastCall.caller = Deployer
    /\ owner \in Accounts \ {Deployer}
    /\ lastCall.result = NotOwnerReason
    /\ balance > 0
    /\ withdrawalStatus = MsgWithdrawalSuccessful

\* C11: when another game than the one the invocation was started for is
\* selected by the time the invocation ends, its result is dropped: the step
\* that ends it writes neither the prediction nor the error, and a prediction
\* that is stored is the one of the selected game.
C11_StaleResultDiscarded ==
    [][/\ \A i \in Invocations :
            (/\ inv[i].pc # "idle" /\ inv'[i].pc = "idle"
             /\ selectedGame # inv[i].game) =>
                (prediction' = prediction /\ error' = error)
       /\ (prediction' # prediction /\ prediction' # 0) =>
            prediction' = selectedGame']_vars

\* C12: selecting another game while the invocation polls for its receipt
\* cancels the poll: from then on the invocation obtains no receipt by a
\* further eth_getTransactionReceipt request, makes no access re-check and
\* requests no prediction.
C12_ReselectCancelsPoll ==
    [][\A i \in Invocations :
        inv[i].reselected =>
            /\ ~(inv[i].pc = "poll" /\ inv'[i].pc = "recheck")
            /\ inv'[i].reads = inv[i].reads
            /\ inv'[i].fetches = inv[i].fetches]_vars

\* C13: when the invocation calls purchasePrediction and the price hook holds
\* a price read from the contract, the amount attached is that price, whatever
\* the owner has set it to; the fixed amount is attached only while no price
\* read has succeeded.
C13_AttachedAmountIsLedgerPrice ==
    [][\A i \in Invocations :
        (inv'[i].submits = inv[i].submits + 1 /\ currentPrice # 0) =>
            PaymentValue = currentPrice]_vars

\* C14: when the initial access check said false and the submission fails
\* with "Already purchased" (access was granted in between), the invocation
\* goes on as if no payment were needed: it requests the prediction of its
\* game and does not end with that failure as its message.
C14_AlreadyPurchasedProceeds ==
    \A i \in Invocations :
        (/\ inv[i].thrown = AlreadyPurchasedReason
         /\ inv[i].reads[1].data = "false") =>
            (/\ inv[i].fetches = <<inv[i].game>>
             /\ inv[i].outcome # AlreadyPurchasedReason)

\* C15: of the schedule fetchGames worked on, the entries that lack a home or
\* an away team name (absent or empty) are not in the games list, and the
\* entries with both names are.
C15_MissingTeamFiltered ==
    \A i \in 1..Len(schedule) :
        (/\ schedule[i].home_team \notin {Undefined, EmptyString}
         /\ schedule[i].away_team \notin {Undefined, EmptyString})
        <=> (\E k \in 1..Len(games) : games[k] = schedule[i].id)

\* a schedule of two entries, the first without an away team name: only the
\* second is listed
C15_Witness ==
    /\ fgPc = "mounted" /\ fetching = 0 /\ Len(schedule) = 2
    /\ schedule[1].home_team = "KC" /\ schedule[1].away_team = EmptyString
    /\ games = <<schedule[2].id>>

\* (date, time) of a before that of b, field by field
Earlier(a, b) ==
    LET ta == a.date \o a.time
        tb == b.date \o b.time
    IN  \E n \in 1..5 : ta[n] < tb[n] /\ \A l \in 1..(n - 1) : ta[l] = tb[l]

\* the entry of the schedule with this id
GameOf(id) == CHOOSE e \in {schedule[i] : i \in 1..Len(schedule)} : e.id = id

\* the schedule of the example: id 2 on 2024-09-10 20:00 listed before id 1
\* on 2024-09-08 13:00
ExampleSchedule ==
    <<Entry(2, "KC", "SF", <<2024, 9, 10>>, <<20, 0>>),
      Entry(1, "KC", "SF", <<2024, 9, 8>>, <<13, 0>>)>>

\* C16: when every retained entry of the schedule has a date and a time, the
\* games list holds each retained entry once and in non-decreasing order of
\* (date, time); the schedule of the example is listed starting with id 1.
C16_SortedByDateTime ==
    LET kept == {i \in 1..Len(schedule) :
                    /\ schedule[i].home_team \notin {Undefined, EmptyString}
                    /\ schedule[i].away_team \notin {Undefined, EmptyString}}
    IN  /\ (\A i \in kept : schedule[i].date # Unparsable
                            /\ schedule[i].time # Unparsable) =>
            /\ Len(games) = Cardinality(kept)
            /\ {games[k] : k \in 1..Len(games)} = {schedule[i].id : i \in kept}
            /\ \A k \in 1..(Len(games) - 1) :
                    ~Earlier(GameOf(games[k + 1]), GameOf(games[k]))
        /\ schedule = ExampleSchedule => games[1] = 1

\* C17: handleGetPrediction called with a game selected and no wallet
\* connected sets the not-connected message and does nothing else: no access
\* read, no submission, no prediction request, and loadingPrediction stays
\* false; so while no wallet is connected no invocation is ever under way.
C17_NotConnectedRejects ==
    /\ [][(InvokeGetPrediction /\ selectedGame # 0 /\ ~isConnected) =>
            /\ error' = MsgConnectFirst
            /\ ~loadingPrediction'
            /\ UNCHANGED <<inv, invocations, txs, prediction, ledgerVars>>]_vars
    /\ [](~isConnected =>
            (/\ ~loadingPrediction /\ invocations = 0
             /\ \A i \in Invocations : inv[i] = NoInvocation))

\* the handler was called for a selected game before any wallet was connected
C17_Witness ==
    /\ ~isConnected /\ selectedGame # 0
    /\ error = MsgConnectFirst
    /\ ~loadingPrediction /\ invocations = 0

\* C18: the answer of predict/{id} ends the invocation with the prediction
\* set and no error exactly when it is a success response with a prediction
\* and no error field; every other answer ends it with no prediction and a
\* message, the server's when the answer carries one.
C18_DoneOnlyOnCleanSuccess ==
    [][\A i \in Invocations, resp \in Responses : FetchAnswered(i, resp) =>
        IF resp.ok /\ resp.success /\ resp.prediction /\ ~resp.error
            THEN prediction' = inv[i].game /\ error' = NoError
            ELSE /\ prediction' = 0 /\ error' # NoError
                 /\ resp.error => error' = ServerSaid]_vars

\* C19: a network check that finds the wallet on another chain makes one
\* wallet_switchEthereumChain request and sets no network error with it; a
\* request that is refused leaves a network error on the page.
C19_ErrorOnlyAfterFailedSwitch ==
    [][/\ (ChainIdAnswered /\ chainId # AVALANCHE_CHAIN_ID) =>
            (/\ netRuns'.switch = netRuns.switch + 1
             /\ networkError' = networkError)
       /\ SwitchRefused => networkError' # NoError]_vars

\* C20: after a submission the invocation makes its second access read only
\* once the receipt of its transaction is there, and makes it once; while it
\* waits for the wallet or for the receipt it makes no access read and
\* requests no prediction, and a prediction requested after a submission
\* follows the receipt and that one re-check.
C20_RecheckOnlyAfterReceipt ==
    /\ [](\A i \in Invocations :
            /\ inv[i].pc = "recheck" =>
                (HasReceipt(inv[i].txResponse) /\ Len(inv[i].reads) = 1)
            /\ Len(inv[i].reads) <= 2
            /\ Len(inv[i].reads) = 2 =>
                (inv[i].submits = 1 /\ HasReceipt(inv[i].txResponse))
            /\ (inv[i].submits = 1 /\ inv[i].fetches # <<>>) =>
                (Len(inv[i].reads) = 2 /\ HasReceipt(inv[i].txResponse)))
    /\ [][\A i \in Invocations :
            inv[i].pc \in {"submit", "poll"} =>
                (/\ inv'[i].reads = inv[i].reads
                 /\ inv'[i].fetches = inv[i].fetches)]_vars

\* a payment was submitted and mined, the one re-check confirmed it and the
\* prediction was requested
C20_Witness ==
    \E i \in Invocations :
        /\ inv[i].submits = 1 /\ inv[i].txResponse = i
        /\ txs[i].status = "success"
        /\ Len(inv[i].reads) = 2
        /\ inv[i].reads[1].data = "false" /\ inv[i].reads[2].data = "true"
        /\ inv[i].fetches = <<inv[i].game>>

\* An invocation that got no transaction hash from writeContract asks for the
\* receipt of none
PollsWithoutHash ==
    \E i \in Invocations :
        inv[i].pc = "poll" /\ inv[i].txResponse = UndefinedHash

\* C21: when every awaited call is answered and every pending transaction is
\* mined, a started invocation of handleGetPrediction ends, with the
\* prediction or with an error message, and loadingPrediction is false again,
\* unless it has no transaction hash to get a receipt for; while the receipt
\* is not there the invocation stays in its loop with loadingPrediction true,
\* unless a receipt request throws.
C21_InvocationEnds ==
    /\ loadingPrediction ~> (~loadingPrediction \/ PollsWithoutHash)
    /\ [](loadingPrediction <=> \E i \in Invocations : inv[i].pc # "idle")
    /\ [](\A i \in Invocations :
            (inv[i].pc = "idle" /\ inv[i].outcome # NotStarted) =>
                (/\ inv[i].outcome # Running
                 /\ (inv[i].outcome = Ok <=> prediction # 0)))
    /\ [][\A i \in Invocations :
            (inv[i].pc = "poll" /\ ~HasReceipt(inv[i].txResponse)) =>
                \/ inv'[i].pc = "poll" /\ loadingPrediction'
                \/ inv'[i].thrown = NetworkFailure /\ inv'[i].pc = "idle"]_vars

\* an invocation that waited for its receipt has ended
C21_Witness ==
    \E i \in Invocations :
        /\ inv[i].pc = "idle" /\ ~loadingPrediction
        /\ inv[i].txResponse = i /\ HasReceipt(i)
        /\ inv[i].outcome \in {Ok, MsgVerificationFailed}

\* C22: a successful purchasePrediction adds exactly the predictionPrice of
\* that moment to the contract balance, whatever msg.value was; a purchase
\* whose refund fails changes neither the balance nor the mapping; a
\* successful withdraw leaves the balance at zero; any other call leaves the
\* balance as it was; so the balance is always the sum of the prices of the
\* purchases made since the last successful withdraw.
C22_BalanceIsPricesSinceWithdraw ==
    /\ [](balance = collected)
    /\ [][/\ (lastCall'.fn = "purchasePrediction" /\ lastCall'.result = Ok) =>
                /\ balance' = balance + predictionPrice
                /\ lastCall'.value >= predictionPrice
          /\ (lastCall'.fn = "purchasePrediction" /\ lastCall'.result # Ok) =>
                (balance' = balance /\ hasPaidForPrediction' = hasPaidForPrediction)
          /\ (lastCall'.fn = "withdraw" /\ lastCall'.result = Ok) =>
                (balance' = 0 /\ balance > 0)
          /\ (lastCall'.fn = "withdraw" /\ lastCall'.result # Ok) =>
                balance' = balance
          /\ lastCall'.fn \in {"updatePrice", "transferOwnership",
                            "renounceOwnership"} => balance' = balance]_vars

\* after a purchase and a withdrawal, a purchase at price 7 paid with 9, the
\* excess refunded: two purchases are recorded and the balance is 7
C22_Witness ==
    /\ lastCall.fn = "purchasePrediction" /\ lastCall.result = Ok
    /\ lastCall.value = 9 /\ predictionPrice = 7
    /\ Cardinality(PaidPairs) = 2
    /\ balance = 7

====
